---------------------------- MODULE Spec2Model ----------------------------
(***************************************************************************)
(* Model of rl/envs.py (GameInterfaceHandler) and rl/utils/np_ext.py       *)
(* (one_hot) of pysc2-rl-mini.                                             *)
(*                                                                         *)
(* The handler is constructed once (__init__) and then its methods are     *)
(* called synchronously; no method writes handler state.  A behaviour of   *)
(* the model is: construction, one method call drawn with its arguments    *)
(* from bounded sets, and the step that runs the method to its return      *)
(* value or to the exception it raises.                                    *)
(*                                                                         *)
(* numpy arrays are functions over 0..n-1 (0-based as in the source); an   *)
(* array of shape (L, H, W) is a function of functions of functions.       *)
(* float32/float64 values that are whole numbers are integers here (every  *)
(* whole number used is far below 2^24, where float32 is exact); the       *)
(* natural logarithm is in fixed point, see Log.                           *)
(***************************************************************************)
EXTENDS Integers, Sequences, FiniteSets

VARIABLES
    num_action,           \* self.num_action
    screen_resolution,    \* self.screen_resolution
    minimap_resolution,   \* self.minimap_resolution
    non_spatial_actions,  \* self.non_spatial_actions
    op,                   \* the method (or function) being called
    args,                 \* its arguments
    ret                   \* its outcome: exception raised (or "none") and value

vars == <<num_action, screen_resolution, minimap_resolution,
          non_spatial_actions, op, args, ret>>

handler == <<num_action, screen_resolution, minimap_resolution,
             non_spatial_actions>>

-----------------------------------------------------------------------------
(* Bounds of the model *)

\* raw scalar values are drawn from 0..MaxRaw
MaxRaw == 2
\* raw maps have height*width <= MaxPixels
MaxPixels == 2
\* the configured resolution is drawn from 1..MaxResl
MaxResl == 3
\* available_actions sequences have at most MaxAvail entries
MaxAvail == 3
\* one_hot index arrays have at most MaxIdxLen entries
MaxIdxLen == 2
\* one_hot depth is drawn from 1..MaxDepth
MaxDepth == 3

-----------------------------------------------------------------------------
(* numpy helpers *)

Size(a) == Cardinality(DOMAIN a)

Arr(n, S) == [0..(n - 1) -> S]

\* np.concatenate(<<a, b>>, axis=0)
Concat(a, b) ==
    [k \in 0..(Size(a) + Size(b) - 1) |->
        IF k < Size(a) THEN a[k] ELSE b[k - Size(a)]]

\* shape of a 3-d array with at least one layer, row and column
Shape3(a) == <<Size(a), Size(a[0]), Size(a[0][0])>>

\* shape of a 4-d array
Shape4(a) == <<Size(a)>> \o Shape3(a[0])

\* np.expand_dims(a, 0)
ExpandDims0(a) == [b \in {0} |-> a]

\* np.log on the whole numbers the model reaches, in millionths, rounded
\* down; log(0) is -inf, below every other value
Log(n) ==
    CASE n = 1 -> 0
      [] n = 2 -> 693147
      [] n = 3 -> 1098612
      [] n = 4 -> 1386294
      [] n = 5 -> 1609437
      [] n = 6 -> 1791759
      [] OTHER -> -1000000000

-----------------------------------------------------------------------------
(* pysc2 catalogs the module imports (scaled-down stand-ins: the layout of  *)
(* the first layers of pysc2's catalogs with small cardinalities)           *)

\* features.SCREEN_FEATURES
SCREEN_FEATURES ==
    [k \in 0..1 |->
        IF k = 0 THEN [name |-> "player_relative", type |-> "CATEGORICAL", scale |-> 3]
                 ELSE [name |-> "unit_hit_points", type |-> "SCALAR", scale |-> 1600]]

\* features.MINIMAP_FEATURES
MINIMAP_FEATURES ==
    [k \in 0..1 |->
        IF k = 0 THEN [name |-> "height_map", type |-> "SCALAR", scale |-> 256]
                 ELSE [name |-> "creep", type |-> "CATEGORICAL", scale |-> 2]]

\* a Python list as a 0-based array
List(seq) == [k \in 0..(Len(seq) - 1) |-> seq[k + 1]]

\* actions.FUNCTIONS: each function's args, by name (the first five of pysc2)
FUNCTIONS ==
    [k \in 0..4 |->
        CASE k = 0 -> [name |-> "no_op", args |-> List(<<>>)]
          [] k = 1 -> [name |-> "move_camera", args |-> List(<<"minimap">>)]
          [] k = 2 -> [name |-> "select_point",
                       args |-> List(<<"select_point_act", "screen">>)]
          [] k = 3 -> [name |-> "select_rect",
                       args |-> List(<<"select_add", "screen", "screen2">>)]
          [] k = 4 -> [name |-> "select_control_group",
                       args |-> List(<<"control_group_act", "control_group_id">>)]]

\* the tuple ('screen', 'minimap', 'screen2')
SpatialArgNames == {"screen", "minimap", "screen2"}

-----------------------------------------------------------------------------
(* Outcomes of a call *)

Pending == [exc |-> "pending", value |-> <<>>]

Return(v) == [exc |-> "none", value |-> v]

Raise(e) == [exc |-> e, value |-> <<>>]

-----------------------------------------------------------------------------
(* GameInterfaceHandler: the channel properties and the map transformers *)

\* the loop of screen_channels / minimap_channels from catalog entry k on
RECURSIVE ChannelsFrom(_, _)
ChannelsFrom(catalog, k) ==
    IF k >= Size(catalog) THEN 0
    ELSE (IF catalog[k].type = "SCALAR" THEN 1 ELSE catalog[k].scale)
         + ChannelsFrom(catalog, k + 1)

screen_channels == ChannelsFrom(SCREEN_FEATURES, 0)

minimap_channels == ChannelsFrom(MINIMAP_FEATURES, 0)

\* mutant of ScalarBlock: the logarithm without the + 1
ScalarBlockNoShift(layer) ==
    [c \in {0} |->
        [y \in DOMAIN layer |->
            [x \in DOMAIN layer[y] |-> Log(layer[y][x])]]]

\* np.log(screen[i:i + 1] + 1.): a block of one channel
ScalarBlock(layer) ==
    [c \in {0} |->
        [y \in DOMAIN layer |->
            [x \in DOMAIN layer[y] |-> Log(layer[y][x] + 1)]]]

\* mutant of CategoricalBlock: categories counted from 1
CategoricalBlockFromOne(layer, scale) ==
    [j \in 0..(scale - 1) |->
        [y \in DOMAIN layer |->
            [x \in DOMAIN layer[y] |-> IF layer[y][x] = j + 1 THEN 1 ELSE 0]]]

\* np.zeros((scale, H, W)), then for j in range(scale): the pixels where
\* the raw layer equals j are set to 1 in channel j
CategoricalBlock(layer, scale) ==
    [j \in 0..(scale - 1) |->
        [y \in DOMAIN layer |->
            [x \in DOMAIN layer[y] |-> IF layer[y][x] = j THEN 1 ELSE 0]]]

\* mutant of LayerBlock: every layer kept as a single channel
LayerBlockSingle(raw, catalog, i) ==
    [c \in {0} |->
        [y \in DOMAIN raw[i] |->
            [x \in DOMAIN raw[i][y] |-> Log(raw[i][y][x] + 1)]]]

\* one pass of the loop over the catalog: the block appended for layer i
LayerBlock(raw, catalog, i) ==
    IF catalog[i].type = "SCALAR"
    THEN ScalarBlock(raw[i])
    ELSE CategoricalBlock(raw[i], catalog[i].scale)

\* np.concatenate(layers, axis=0) of the blocks of layers k, k+1, ...
RECURSIVE ConcatBlocks(_, _, _)
ConcatBlocks(raw, catalog, k) ==
    IF k >= Size(catalog) THEN <<>>
    ELSE Concat(LayerBlock(raw, catalog, k), ConcatBlocks(raw, catalog, k + 1))

\* mutant of ShapeAssertion: surplus layers are let through
ShapeAssertionAtLeast(raw, catalog) == Size(raw) >= Size(catalog)

\* assert screen.shape[0] == len(features.SCREEN_FEATURES)
ShapeAssertion(raw, catalog) == Size(raw) = Size(catalog)

\* _preprocess_screen / _preprocess_minimap: the same body over either catalog
Preprocess(raw, catalog) ==
    IF ~ShapeAssertion(raw, catalog)
    THEN Raise("AssertionError")
    ELSE Return(ConcatBlocks(raw, catalog, 0))

_preprocess_screen(screen) == Preprocess(screen, SCREEN_FEATURES)

_preprocess_minimap(minimap) == Preprocess(minimap, MINIMAP_FEATURES)

\* get_screen / get_minimap: the exception propagates, else a batch axis is added
Batched(r) == IF r.exc = "none" THEN Return(ExpandDims0(r.value)) ELSE r

get_screen(observation) == Batched(_preprocess_screen(observation.screen))

get_minimap(observation) == Batched(_preprocess_minimap(observation.minimap))

-----------------------------------------------------------------------------
(* GameInterfaceHandler: availability mask, action decoder, classifier *)

\* mutant of _preprocess_available_actions: occurrences are counted
\* (a_actions[i] += 1 for every listed i)
PreprocessAvailableActionsCounting(available_actions, n) ==
    [i \in 0..(n - 1) |->
        Cardinality({k \in DOMAIN available_actions : available_actions[k] = i})]

\* a_actions = np.zeros(num_action); a_actions[available_actions] = 1.
_preprocess_available_actions(available_actions, n) ==
    [i \in 0..(n - 1) |->
        IF \E k \in DOMAIN available_actions : available_actions[k] = i
        THEN 1 ELSE 0]

get_available_actions(observation, n) ==
    Return(_preprocess_available_actions(observation.available_actions, n))

get_info(observation, n) == get_available_actions(observation, n)

\* mutant of TargetPoint: quotient and remainder exchanged, (y, x)
TargetPointSwapped(target, resolution) ==
    List(<<target \div resolution, target % resolution>>)

\* [int(target % resolution), int(target // resolution)], the (x, y) pair
TargetPoint(target, resolution) ==
    List(<<target % resolution, target \div resolution>>)

\* mutant of ActArg: 'screen2' missing from the tuple of spatial names
ActArgNoScreen2(name, target_point) ==
    IF name \in {"screen", "minimap"} THEN target_point ELSE List(<<0>>)

\* the entry appended for one argument slot
ActArg(name, target_point) ==
    IF name \in SpatialArgNames THEN target_point ELSE List(<<0>>)

\* the loop over actions.FUNCTIONS[act_id].args
ActArgs(act_id, target_point) ==
    [k \in DOMAIN FUNCTIONS[act_id].args |->
        ActArg(FUNCTIONS[act_id].args[k], target_point)]

\* actions.FunctionCall(act_id, act_args)
FunctionCall(function, arguments) ==
    [function |-> function, arguments |-> arguments]

postprocess_action(non_spatial_action, spatial_action, resolution) ==
    LET act_id == non_spatial_action[0][0]
        target == spatial_action[0][0]
    IN  Return(FunctionCall(act_id, ActArgs(act_id, TargetPoint(target, resolution))))

\* the inner loop of _get_nonspatial_actions from slot k on: the entry stays
\* True unless a spatial slot is met, which sets it False and breaks
RECURSIVE ScanArgs(_, _)
ScanArgs(fargs, k) ==
    IF k >= Size(fargs) THEN TRUE
    ELSE IF fargs[k] \in SpatialArgNames THEN FALSE
    ELSE ScanArgs(fargs, k + 1)

\* mutant of _get_nonspatial_actions: the break leaves the loop after the
\* first slot whatever its name
GetNonspatialActionsFirstSlot(n) ==
    [func_id \in 0..(n - 1) |->
        IF func_id \in DOMAIN FUNCTIONS /\ Size(FUNCTIONS[func_id].args) > 0
        THEN FUNCTIONS[func_id].args[0] \notin SpatialArgNames ELSE TRUE]

_get_nonspatial_actions(n) ==
    [func_id \in 0..(n - 1) |->
        IF func_id \in DOMAIN FUNCTIONS
        THEN ScanArgs(FUNCTIONS[func_id].args, 0) ELSE TRUE]

\* self.non_spatial_actions(action_id): the list is called, not indexed, and
\* a Python list is not callable
is_nonspatial_action(table, action_id) == Raise("TypeError")

-----------------------------------------------------------------------------
(* rl/utils/np_ext.py *)

\* index values are carried in halves (h stands for h/2), so that astype
\* has something to truncate; indices.astype(int) rounds toward zero
AsTypeInt(h) == h \div 2

\* mutant of Eye: the ones one place off the diagonal (np.eye(depth, k=1))
EyeShifted(depth) ==
    [r \in 0..(depth - 1) |-> [c \in 0..(depth - 1) |-> IF c = r + 1 THEN 1 ELSE 0]]

\* np.eye(depth, dtype=dtype)
Eye(depth) ==
    [r \in 0..(depth - 1) |-> [c \in 0..(depth - 1) |-> IF r = c THEN 1 ELSE 0]]

\* np.eye(depth, dtype=dtype)[indices.astype(int)] for a 1-d index array
one_hot(indices, depth) ==
    IF \E k \in DOMAIN indices : AsTypeInt(indices[k]) >= depth
    THEN Raise("IndexError")
    ELSE Return([k \in DOMAIN indices |-> Eye(depth)[AsTypeInt(indices[k])]])

-----------------------------------------------------------------------------
(* Arguments the callers pass *)

\* (height, width) of a raw map
Shapes ==
    {hw \in (1..MaxPixels) \X (1..MaxPixels) : hw[1] * hw[2] <= MaxPixels}

\* raw values of one layer: a magnitude, or a category below the cardinality
LayerValues(feature) ==
    IF feature.type = "SCALAR" THEN 0..MaxRaw ELSE 0..(feature.scale - 1)

Layers(feature, h, w) == Arr(h, Arr(w, LayerValues(feature)))

\* raw maps with one layer per catalog entry
ValidMaps(catalog) ==
    UNION {
        {m \in [DOMAIN catalog ->
                    UNION {Layers(catalog[i], hw[1], hw[2]) : i \in DOMAIN catalog}] :
            \A i \in DOMAIN catalog : m[i] \in Layers(catalog[i], hw[1], hw[2])}
        : hw \in Shapes}

\* raw maps of another layer count: the last layer missing, or one layer more
MismatchedMaps(catalog) ==
    {[i \in 0..(Size(m) - 2) |-> m[i]] : m \in ValidMaps(catalog)}
    \cup {Concat(m, [i \in {0} |-> m[0]]) : m \in ValidMaps(catalog)}

RawMaps(catalog) == ValidMaps(catalog) \cup MismatchedMaps(catalog)

\* observation['available_actions']: identifiers of the vocabulary, in any
\* order, repeats allowed
AvailableActions(n) ==
    UNION {Arr(len, 0..(n - 1)) : len \in 0..MaxAvail}

\* an ndarray of shape (1, 1)
Array11(v) == [r \in {0} |-> [c \in {0} |-> v]]

\* index arrays of one_hot, in halves, every value in [0, depth)
IndexArrays(depth) ==
    UNION {Arr(len, 0..(2 * depth - 1)) : len \in 0..MaxIdxLen}

-----------------------------------------------------------------------------
(* Construction and calls *)

\* GameInterfaceHandler.__init__: both resolutions are the configured resl
Construct ==
    /\ num_action = Size(FUNCTIONS)
    /\ screen_resolution \in 1..MaxResl
    /\ minimap_resolution = screen_resolution
    /\ non_spatial_actions = _get_nonspatial_actions(num_action)

Init ==
    /\ Construct
    /\ ret = Pending
    /\ \/ /\ op = "get_screen"
          /\ \E m \in RawMaps(SCREEN_FEATURES) : args = [observation |-> [screen |-> m]]
       \/ /\ op = "get_minimap"
          /\ \E m \in RawMaps(MINIMAP_FEATURES) : args = [observation |-> [minimap |-> m]]
       \/ /\ op \in {"screen_channels", "minimap_channels"}
          /\ args = <<>>
       \/ /\ op \in {"get_available_actions", "get_info"}
          /\ \E a \in AvailableActions(Size(FUNCTIONS)) :
                args = [observation |-> [available_actions |-> a]]
       \/ /\ op = "postprocess_action"
          /\ \E act_id \in DOMAIN FUNCTIONS :
             \E target \in 0..(screen_resolution * screen_resolution - 1) :
                args = [non_spatial_action |-> Array11(act_id),
                        spatial_action |-> Array11(target)]
       \/ /\ op = "is_nonspatial_action"
          /\ \E action_id \in DOMAIN FUNCTIONS : args = [action_id |-> action_id]
       \/ /\ op = "one_hot"
          /\ \E depth \in 1..MaxDepth : \E indices \in IndexArrays(depth) :
                args = [indices |-> indices, depth |-> depth]

\* every call runs to its outcome; nothing of the handler is written

GetScreen ==
    /\ op = "get_screen"
    /\ ret.exc = "pending"
    /\ ret' = get_screen(args.observation)
    /\ UNCHANGED <<handler, op, args>>

GetMinimap ==
    /\ op = "get_minimap"
    /\ ret.exc = "pending"
    /\ ret' = get_minimap(args.observation)
    /\ UNCHANGED <<handler, op, args>>

ScreenChannels ==
    /\ op = "screen_channels"
    /\ ret.exc = "pending"
    /\ ret' = Return(screen_channels)
    /\ UNCHANGED <<handler, op, args>>

MinimapChannels ==
    /\ op = "minimap_channels"
    /\ ret.exc = "pending"
    /\ ret' = Return(minimap_channels)
    /\ UNCHANGED <<handler, op, args>>

GetAvailableActions ==
    /\ op = "get_available_actions"
    /\ ret.exc = "pending"
    /\ ret' = get_available_actions(args.observation, num_action)
    /\ UNCHANGED <<handler, op, args>>

GetInfo ==
    /\ op = "get_info"
    /\ ret.exc = "pending"
    /\ ret' = get_info(args.observation, num_action)
    /\ UNCHANGED <<handler, op, args>>

PostprocessAction ==
    /\ op = "postprocess_action"
    /\ ret.exc = "pending"
    /\ ret' = postprocess_action(args.non_spatial_action, args.spatial_action,
                                 screen_resolution)
    /\ UNCHANGED <<handler, op, args>>

IsNonspatialAction ==
    /\ op = "is_nonspatial_action"
    /\ ret.exc = "pending"
    /\ ret' = is_nonspatial_action(non_spatial_actions, args.action_id)
    /\ UNCHANGED <<handler, op, args>>

OneHot ==
    /\ op = "one_hot"
    /\ ret.exc = "pending"
    /\ ret' = one_hot(args.indices, args.depth)
    /\ UNCHANGED <<handler, op, args>>

Next ==
    \/ GetScreen
    \/ GetMinimap
    \/ ScreenChannels
    \/ MinimapChannels
    \/ GetAvailableActions
    \/ GetInfo
    \/ PostprocessAction
    \/ IsNonspatialAction
    \/ OneHot

Spec == Init /\ [][Next]_vars

-----------------------------------------------------------------------------
(* Vocabulary of the properties *)

\* the raw map and the catalog of a returned get_screen / get_minimap call
IsMapCall == op \in {"get_screen", "get_minimap"}

RawOf == IF op = "get_screen" THEN args.observation.screen
                              ELSE args.observation.minimap

CatalogOf == IF op = "get_screen" THEN SCREEN_FEATURES ELSE MINIMAP_FEATURES

Returned == ret.exc = "none"

\* the encoded tensor without its batch axis
Encoded == ret.value[0]

\* the channels a layer is declared to give, as (layer, sub-channel) pairs
DeclaredChannels(catalog) ==
    UNION {{<<i, j>> : j \in 0..((IF catalog[i].type = "SCALAR"
                                   THEN 1 ELSE catalog[i].scale) - 1)}
           : i \in DOMAIN catalog}

\* the first channel of layer i's block
Offset(catalog, i) ==
    Cardinality({p \in DeclaredChannels(catalog) : p[1] < i})

Pixels(raw) == (DOMAIN raw[0]) \X (DOMAIN raw[0][0])

SpatialSlots(act_id) ==
    {k \in DOMAIN FUNCTIONS[act_id].args :
        FUNCTIONS[act_id].args[k] \in {"screen", "minimap", "screen2"}}

\* C2: the flat target f decodes to (x, y) with 0 <= x, y < R and
\* f = x + y*R; f=0 gives (0,0), f=R gives (0,1), f=R*R-1 gives (R-1,R-1)
C2_TargetDecoding ==
    (op = "postprocess_action" /\ Returned) =>
        LET f == args.spatial_action[0][0]
            R == screen_resolution
        IN  \A k \in SpatialSlots(args.non_spatial_action[0][0]) :
                LET x == ret.value.arguments[k][0]
                    y == ret.value.arguments[k][1]
                IN  /\ x \in 0..(R - 1)
                    /\ y \in 0..(R - 1)
                    /\ f = x + y * R
                    /\ (f = 0 => (x = 0 /\ y = 0))
                    /\ (f = R => (x = 0 /\ y = 1))
                    /\ (f = R * R - 1 => (x = R - 1 /\ y = R - 1))

\* C2 witness: the target f = R, with R >= 2, decoded to (0, 1) at a
\* spatial slot
C2_Witness ==
    /\ op = "postprocess_action" /\ Returned
    /\ screen_resolution >= 2
    /\ args.spatial_action[0][0] = screen_resolution
    /\ args.non_spatial_action[0][0] = 1
    /\ ret.value.arguments[0][0] = 0
    /\ ret.value.arguments[0][1] = 1

\* C3: the command carries the chosen identifier and one entry per argument
\* slot in slot order: the decoded pair at every spatial slot (the same pair
\* at each), the placeholder [0] at every other slot
C3_CommandArguments ==
    (op = "postprocess_action" /\ Returned) =>
        LET act_id == args.non_spatial_action[0][0]
            f == args.spatial_action[0][0]
            R == screen_resolution
            slots == FUNCTIONS[act_id].args
            out == ret.value.arguments
        IN  /\ ret.value.function = act_id
            /\ DOMAIN out = DOMAIN slots
            /\ \A k \in DOMAIN slots :
                  IF k \in SpatialSlots(act_id)
                  THEN /\ DOMAIN out[k] = {0, 1}
                       /\ out[k][0] = f % R
                       /\ out[k][1] = f \div R
                       /\ \A k2 \in SpatialSlots(act_id) : out[k2] = out[k]
                  ELSE /\ DOMAIN out[k] = {0}
                       /\ out[k][0] = 0
            /\ (Cardinality(SpatialSlots(act_id)) = 2 /\ Size(slots) = 3)
                  => Size(out) = 3

\* C3 witness: select_rect (one non-spatial slot, then two spatial slots)
\* decoded with a target that is not the origin
C3_Witness ==
    /\ op = "postprocess_action" /\ Returned
    /\ args.non_spatial_action[0][0] = 3
    /\ args.spatial_action[0][0] = 1
    /\ Size(ret.value.arguments) = 3
    /\ ret.value.arguments[1] = ret.value.arguments[2]
    /\ Size(ret.value.arguments[0]) = 1

\* C4: the availability vector has one entry per vocabulary action, 1 where
\* the identifier occurs in available_actions and 0 elsewhere, for any
\* sequence, the empty one and one with duplicates included
C4_AvailabilityVector ==
    (op \in {"get_available_actions", "get_info"} /\ Returned) =>
        LET listed == {args.observation.available_actions[k] :
                          k \in DOMAIN args.observation.available_actions}
        IN  /\ DOMAIN ret.value = 0..(Size(FUNCTIONS) - 1)
            /\ \A i \in DOMAIN ret.value :
                  ret.value[i] = (IF i \in listed THEN 1 ELSE 0)

\* C4 witness: a sequence that lists one identifier twice and another once
C4_Witness ==
    /\ op = "get_available_actions" /\ Returned
    /\ LET a == args.observation.available_actions
       IN  /\ Size(a) = 3
           /\ a[0] = a[2]
           /\ a[1] # a[0]
           /\ ret.value[a[0]] = 1
           /\ ret.value[a[1]] = 1

C7_ClassificationTable ==
    /\ DOMAIN non_spatial_actions = DOMAIN FUNCTIONS
    /\ \A id \in DOMAIN FUNCTIONS :
          non_spatial_actions[id] = (SpatialSlots(id) = {})

\* C7 witness: after construction, select_point (spatial slot second) is
\* spatial and select_control_group (two other slots) is non-spatial
C7_Witness ==
    /\ ret.exc = "pending"
    /\ non_spatial_actions[2] = FALSE
    /\ non_spatial_actions[4] = TRUE
    /\ non_spatial_actions[0] = TRUE

\* C8: is_nonspatial_action(action_id) returns the action's classification
\* for every identifier of the vocabulary and does not fail
C8_LookupReturns ==
    (op = "is_nonspatial_action" /\ ret.exc # "pending") =>
        /\ ret.exc = "none"
        /\ ret.value = (SpatialSlots(args.action_id) = {})

\* C9: a raw map whose layer count differs from the catalog length fails
\* with an assertion failure and gives no tensor; an equal count never does
C9_LayerCountAssertion ==
    (IsMapCall /\ ret.exc # "pending") =>
        /\ (Size(RawOf) # Size(CatalogOf)) =>
              (ret.exc = "AssertionError" /\ ret.value = <<>>)
        /\ (Size(RawOf) = Size(CatalogOf)) => ret.exc # "AssertionError"

\* C9 witness: get_screen failed on a map with one layer too many
C9_Witness ==
    /\ op = "get_screen"
    /\ Size(RawOf) = Size(SCREEN_FEATURES) + 1
    /\ ret.exc = "AssertionError"

\* C10: one_hot returns an array with the shape of indices and a trailing
\* axis of size depth; for every index value k in [0, depth) the vector is
\* 1 at position k and 0 elsewhere
C10_OneHot ==
    (op = "one_hot" /\ ret.exc # "pending") =>
        /\ Returned
        /\ DOMAIN ret.value = DOMAIN args.indices
        /\ \A n \in DOMAIN args.indices :
              /\ DOMAIN ret.value[n] = 0..(args.depth - 1)
              /\ \A k \in 0..(args.depth - 1) :
                    args.indices[n] = 2 * k =>
                        \A c \in 0..(args.depth - 1) :
                            ret.value[n][c] = (IF c = k THEN 1 ELSE 0)

\* C10 witness: two indices, the first index 0 and the last index depth-1
C10_Witness ==
    /\ op = "one_hot" /\ Returned
    /\ args.depth >= 2
    /\ Size(args.indices) = 2
    /\ args.indices[0] = 2 * (args.depth - 1)
    /\ args.indices[1] = 0
    /\ ret.value[0][args.depth - 1] = 1
    /\ ret.value[1][0] = 1

=============================================================================
